---------------------------- MODULE Spec2Model ----------------------------
(***************************************************************************)
(* One run of the Streamlit script app.py: the upload, the temporary file, *)
(* the "Process Image" button, Method 1 (vessel + hemorrhage detection),   *)
(* Method 2 (step-wise hemorrhage detection) and the clean-up.             *)
(*                                                                         *)
(* Images are 8-bit rasters [h, w, px] with px a function on the pixel     *)
(* grid (1..h) \X (1..w).  A colour pixel is a triple <<b, g, r>>, a grey  *)
(* pixel or a mask pixel a number in 0..255, a boolean mask pixel a        *)
(* BOOLEAN.  The library calls are modelled by what they compute on such   *)
(* rasters, in the integer arithmetic OpenCV uses for 8-bit images.  The   *)
(* rasters of the model are small: the bounds below scale the image sizes, *)
(* the canonical size of Method 2, the minimum object size and the         *)
(* threshold block down together.                                          *)
(***************************************************************************)
EXTENDS Integers, Sequences, FiniteSets, TLC

(* ------------------------------ bounds --------------------------------- *)
\* an uploaded image has at most MaxArea pixels (h * w <= MaxArea)
MaxArea == 4
\* stands for the canonical 512 of cv2.resize(img, (512, 512))
CanonSize == 2
\* stands for min_size=100 of remove_small_objects
MinSize == 2
\* radius of the weighting window of threshold_local (block_size=51)
BlockRadius == 1

(* ------------------------- program constants --------------------------- *)
VesselThresh == 20
SatMin == 120
ValMin == 70
LowHueMax == 10
HighHueMin == 170
HighHueMax == 180
ClipLimit == 2
RescaleLow == 50
RescaleHigh == 200
Offset == 10
DiskRadius == 3
MedianSize == 5

VARIABLES pc, uploaded_file, temp_dir, temp_file, m1, m2, shown

vars == <<pc, uploaded_file, temp_dir, temp_file, m1, m2, shown>>

(* ------------------------------ rasters -------------------------------- *)
Grid(h, w) == (1..h) \X (1..w)

RECURSIVE Tabulate(_, _)
\* the function f restricted to the finite set S, as an explicit table
Tabulate(f, S) ==
    IF S = {} THEN <<>>
    ELSE LET x == CHOOSE y \in S : TRUE IN (x :> f[x]) @@ Tabulate(f, S \ {x})

Raster(h, w, F(_)) ==
    [h |-> h, w |-> w, px |-> Tabulate([p \in Grid(h, w) |-> F(p)], Grid(h, w))]

\* cv2.imread's None, and the value of a variable not yet assigned
None == [h |-> 0, w |-> 0, px |-> <<>>]

Pixels(im) == Grid(im.h, im.w)

Map(im, F(_)) == Raster(im.h, im.w, LAMBDA p : F(im.px[p]))

Min2(a, b) == IF a < b THEN a ELSE b

Max2(a, b) == IF a > b THEN a ELSE b

\* n / d rounded to the nearest integer (d > 0, no tie occurs where it is used)
RoundDiv(n, d) == (2 * n + d) \div (2 * d)

\* cvRound(n / d): to the nearest integer, a tie to the even one (n >= 0, d > 0)
RoundHalfEven(n, d) ==
    LET q == n \div d
        r == n % d
    IN  IF 2 * r < d THEN q
        ELSE IF 2 * r > d THEN q + 1
        ELSE IF q % 2 = 0 THEN q ELSE q + 1

(* ------------------------------ inputs --------------------------------- *)
Black == <<0, 0, 0>>

\* BGR colours: pure red, and colours on each side of every bound of the
\* two red bands (hue 10 | 11, 169 | 170, saturation 119 | 120, value 69 | 70)
Palette ==
    { Black, <<0, 0, 255>>,
      <<0, 30, 90>>, <<0, 30, 80>>, <<30, 0, 80>>, <<30, 0, 90>>,
      <<80, 80, 150>>, <<135, 135, 255>>, <<0, 0, 69>>, <<0, 0, 70>> }

Shapes == { s \in (1..MaxArea) \X (1..MaxArea) : s[1] * s[2] <= MaxArea }

\* a rectangle of colour fg on a background bg (fg = bg: a uniform image)
RectImage(h, w, y1, y2, x1, x2, fg, bg) ==
    Raster(h, w, LAMBDA p :
        IF y1 <= p[1] /\ p[1] <= y2 /\ x1 <= p[2] /\ p[2] <= x2 THEN fg ELSE bg)

ImagesOfShape(h, w) ==
    { RectImage(h, w, y1, y2, x1, x2, fg, Black) :
        y1 \in 1..h, y2 \in 1..h, x1 \in 1..w, x2 \in 1..w, fg \in Palette }

\* the images a decodable upload may hold
Images == UNION { ImagesOfShape(s[1], s[2]) : s \in Shapes }

\* st.file_uploader's None
NoFile == [present |-> FALSE, content |-> None]

\* an uploaded file; content is what cv2.imread decodes from it (None: nothing)
Files == { [present |-> TRUE, content |-> im] : im \in Images \cup {None} }

(* ----------------------------- Method 1 -------------------------------- *)
\* cv2.cvtColor(image, cv2.COLOR_BGR2GRAY) on 8-bit pixels
BGR2GRAY(image) ==
    Map(image, LAMBDA c : (c[1] * 3735 + c[2] * 19235 + c[3] * 9798 + 16384) \div 32768)

\* the 8-bit responses (vessel_enhanced * 255).astype(np.uint8) may take at a
\* pixel: frangi's floating-point response is not computed, every raster of
\* responses at the cutoff (20) or just above it (21) is a possible outcome
Responses == {VesselThresh, VesselThresh + 1}

FrangiScaled(gray) ==
    { [h |-> gray.h, w |-> gray.w, px |-> f] : f \in [Pixels(gray) -> Responses] }

\* cv2.threshold(src, thresh, maxval, cv2.THRESH_BINARY)
Threshold(src, thresh, maxval) ==
    Map(src, LAMBDA v : IF v > thresh THEN maxval ELSE 0)

\* 4-neighbours of p inside a raster (connectivity 1)
Neighbours(im, p) ==
    { q \in Pixels(im) :
        \/ q[1] = p[1] /\ (q[2] = p[2] + 1 \/ q[2] = p[2] - 1)
        \/ q[2] = p[2] /\ (q[1] = p[1] + 1 \/ q[1] = p[1] - 1) }

RECURSIVE Grow(_, _)
\* the connected component of the boolean raster mask that holds the set seen
Grow(mask, seen) ==
    LET more == { q \in Pixels(mask) :
                    mask.px[q] /\ q \notin seen /\ \E p \in seen : q \in Neighbours(mask, p) }
    IN  IF more = {} THEN seen ELSE Grow(mask, seen \cup more)

Component(mask, p) == Grow(mask, {p})

\* vessel_binary.astype(bool)
AsBool(im) == Map(im, LAMBDA v : v # 0)

\* skimage remove_small_objects(mask, min_size): drops the connected
\* components of fewer than min_size pixels
RemoveSmallObjects(mask, min_size) ==
    Raster(mask.h, mask.w, LAMBDA p :
        mask.px[p] /\ Cardinality(Component(mask, p)) >= min_size)

\* .astype(np.uint8) * 255
AsMask255(im) == Map(im, LAMBDA v : IF v THEN 255 ELSE 0)

\* OpenCV's division tables of the 8-bit BGR -> HSV conversion (hsv_shift 12)
SDiv(v) == IF v = 0 THEN 0 ELSE RoundDiv(255 * 4096, v)

HDiv180(diff) == IF diff = 0 THEN 0 ELSE RoundDiv(180 * 4096, 6 * diff)

\* cv2.cvtColor(image, cv2.COLOR_BGR2HSV) of one pixel: <<h, s, v>>, h in 0..179
PixelHSV(c) ==
    LET b == c[1]
        g == c[2]
        r == c[3]
        v == Max2(b, Max2(g, r))
        vmin == Min2(b, Min2(g, r))
        diff == v - vmin
        s == (diff * SDiv(v) + 2048) \div 4096
        h0 == IF v = r THEN g - b
              ELSE IF v = g THEN b - r + 2 * diff
              ELSE r - g + 4 * diff
        h1 == (h0 * HDiv180(diff) + 2048) \div 4096
        h == IF h1 < 0 THEN h1 + 180 ELSE h1
    IN  <<h, s, v>>

BGR2HSV(image) == Map(image, PixelHSV)

\* mutant: the upper bound taken as exclusive
MutInRangeExclusive(src, lowerb, upperb) ==
    Map(src, LAMBDA c :
        IF \A i \in 1..3 : lowerb[i] <= c[i] /\ c[i] < upperb[i] THEN 255 ELSE 0)

\* mutant: only the hue channel is tested
MutInRangeHueOnly(src, lowerb, upperb) ==
    Map(src, LAMBDA c : IF lowerb[1] <= c[1] /\ c[1] <= upperb[1] THEN 255 ELSE 0)

\* cv2.inRange(src, lowerb, upperb): 255 where every channel is within its
\* bounds (both inclusive), else 0
InRange(src, lowerb, upperb) ==
    Map(src, LAMBDA c :
        IF \A i \in 1..3 : lowerb[i] <= c[i] /\ c[i] <= upperb[i] THEN 255 ELSE 0)

\* bitwise or / and of 8-bit mask values that are 0 or 255
Or8(a, b) == IF a = 255 \/ b = 255 THEN 255 ELSE 0

And8(a, b) == IF a = 255 /\ b = 255 THEN 255 ELSE 0

\* red_mask1 | red_mask2
BitwiseOr(a, b) == Raster(a.h, a.w, LAMBDA p : Or8(a.px[p], b.px[p]))

\* mutant: the overlap computed as a union
MutBitwiseAndAsOr(a, b) == Raster(a.h, a.w, LAMBDA p : Or8(a.px[p], b.px[p]))

\* cv2.bitwise_and(a, b)
BitwiseAnd(a, b) == Raster(a.h, a.w, LAMBDA p : And8(a.px[p], b.px[p]))

\* mutant: no copy, the highlight is written into the original array
MutHighlightInPlace(image, mask, colour) ==
    LET written == Raster(image.h, image.w, LAMBDA p :
                      IF mask.px[p] = 255 THEN colour ELSE image.px[p])
    IN  [image |-> written, highlighted_damage |-> written]

\* highlighted_damage = image.copy(); highlighted_damage[mask == 255] = colour:
\* the assignment writes the copy, the array image names stays as it was
Highlight(image, mask, colour) ==
    [image |-> image,
     highlighted_damage |->
        Raster(image.h, image.w, LAMBDA p : IF mask.px[p] = 255 THEN colour ELSE image.px[p])]

\* one subplot: axes[i].imshow(data); axes[i].set_title(title)
Panel(title, data) == [title |-> title, data |-> data]

\* the variables of Method 1 once its code has run on the decoded image,
\* given the vessel response the Frangi filter produced
Method1Vars(image, scaled) ==
    LET gray == BGR2GRAY(image)
        vessel_thresh == Threshold(scaled, VesselThresh, 255)
        vessel_binary == AsMask255(RemoveSmallObjects(AsBool(vessel_thresh), MinSize))
        hsv == BGR2HSV(image)
        red_mask1 == InRange(hsv, <<0, SatMin, ValMin>>, <<LowHueMax, 255, 255>>)
        red_mask2 == InRange(hsv, <<HighHueMin, SatMin, ValMin>>, <<HighHueMax, 255, 255>>)
        red_areas == BitwiseOr(red_mask1, red_mask2)
        damaged_areas == BitwiseAnd(vessel_binary, red_areas)
        overlay == Highlight(image, damaged_areas, <<0, 0, 255>>)
        highlighted_damage == overlay.highlighted_damage
    IN  [image |-> overlay.image, gray |-> gray, vessel_scaled |-> scaled,
         vessel_thresh |-> vessel_thresh, vessel_binary |-> vessel_binary,
         hsv |-> hsv, red_mask1 |-> red_mask1, red_mask2 |-> red_mask2,
         red_areas |-> red_areas, damaged_areas |-> damaged_areas,
         highlighted_damage |-> highlighted_damage]

\* mutant: the second panel shows the vessel mask
MutMethod1FigureVessel(v) ==
    << Panel("Original Fundus Image", v.image),
       Panel("Detected Hemorrhage Areas", v.vessel_binary),
       Panel("Blood Vessel Leakage Highlighted (Red)", v.highlighted_damage) >>

\* the figure Method 1 hands to st.image: axes[0], axes[1], axes[2]
Method1Figure(v) ==
    << Panel("Original Fundus Image", v.image),
       Panel("Detected Hemorrhage Areas", v.red_areas),
       Panel("Blood Vessel Leakage Highlighted (Red)", v.highlighted_damage) >>


(* ----------------------------- Method 2 -------------------------------- *)
\* cv2.resize's bilinear coefficients for destination index d (1-based) of n
\* from a source of m: <<source index, weight of it, weight of the next>>,
\* weights in 1/2048ths (INTER_RESIZE_COEF_BITS = 11)
ResizeCoef(d, n, m) ==
    LET num == (2 * (d - 1) + 1) * m - n      \* fx = num / (2 n), 0-based
        sx == num \div (2 * n)
        rem == num % (2 * n)
    IN  IF sx < 0 THEN <<1, 2048, 0>>
        ELSE IF sx >= m - 1 THEN <<m, 2048, 0>>
        ELSE <<sx + 1, RoundDiv((2 * n - rem) * 2048, 2 * n), RoundDiv(rem * 2048, 2 * n)>>

\* one channel value of cv2.resize(src, (dw, dh)) at <<y, x>> (INTER_LINEAR on
\* 8-bit data: a horizontal pass, then the vertical pass with its shifts)
ResizeAt(src, ch, dh, dw, y, x) ==
    LET cx == ResizeCoef(x, dw, src.w)
        cy == ResizeCoef(y, dh, src.h)
        x2 == Min2(cx[1] + 1, src.w)
        y2 == Min2(cy[1] + 1, src.h)
        H(row) == src.px[<<row, cx[1]>>][ch] * cx[2] + src.px[<<row, x2>>][ch] * cx[3]
    IN  (((cy[2] * (H(cy[1]) \div 16)) \div 65536)
          + ((cy[3] * (H(y2) \div 16)) \div 65536) + 2) \div 4

\* mutant: an image smaller than the target is not upsampled
MutResizeNoUpsample(src, dw, dh) ==
    Raster(Min2(dh, src.h), Min2(dw, src.w), LAMBDA p :
        [ch \in 1..3 |-> ResizeAt(src, ch, Min2(dh, src.h), Min2(dw, src.w), p[1], p[2])])

\* cv2.resize(src, (dw, dh)) of a colour image
Resize(src, dw, dh) ==
    Raster(dh, dw, LAMBDA p : [ch \in 1..3 |-> ResizeAt(src, ch, dh, dw, p[1], p[2])])

\* resized[:, :, 1]
Channel(im, ch) == Map(im, LAMBDA c : c[ch])

RECURSIVE SumFn(_, _)
\* the sum of f[x] over the finite set S
SumFn(f, S) ==
    IF S = {} THEN 0
    ELSE LET x == CHOOSE y \in S : TRUE IN f[x] + SumFn(f, S \ {x})

\* the sum of F over a finite set
SumOver(S, F(_)) == SumFn([x \in S |-> F(x)], S)

Values(im) == { im.px[p] : p \in Pixels(im) }

Hist(im, u) == Cardinality({ p \in Pixels(im) : im.px[p] = u })

\* cv2.createCLAHE(clipLimit, tileGridSize).apply(src) where the raster lies
\* within one tile: the tile's histogram is clipped at the clip limit, the
\* excess is spread over the 256 bins, and the scaled cumulative sum is the
\* look-up table every pixel is passed through
CLAHE(src, clip_limit) ==
    LET area == src.h * src.w
        clip == Max2((clip_limit * area) \div 256, 1)
        clipped == SumOver(Values(src), LAMBDA u : Max2(Hist(src, u) - clip, 0))
        redistBatch == clipped \div 256
        residual == clipped - redistBatch * 256
        residualStep == IF residual = 0 THEN 1 ELSE Max2(256 \div residual, 1)
        \* sum of the redistributed histogram over the bins 0..v
        cdf(v) == SumOver({ u \in Values(src) : u <= v },
                          LAMBDA u : Min2(Hist(src, u), clip))
                  + redistBatch * (v + 1)
                  + (IF residual = 0 THEN 0 ELSE Min2(residual, v \div residualStep + 1))
    IN  Map(src, LAMBDA v : Min2(RoundHalfEven(cdf(v) * 255, area), 255))

\* 255 - im on 8-bit data
Complement(im) == Map(im, LAMBDA v : 255 - v)

\* cv2.getStructuringElement(cv2.MORPH_ELLIPSE, (5, 5)) as the offsets of its ones
Ellipse5 ==
    { d \in (-2..2) \X (-2..2) : (d[1] = 2 \/ d[1] = -2) => d[2] = 0 }

\* skimage.morphology.disk(radius) as the offsets of its ones
Disk(radius) ==
    { d \in (-radius..radius) \X (-radius..radius) :
        d[1] * d[1] + d[2] * d[2] <= radius * radius }

\* the pixels of im under the structuring element centred at p
Under(im, p, kernel) ==
    { q \in Pixels(im) : <<q[1] - p[1], q[2] - p[2]>> \in kernel }

MinOf(S) == CHOOSE v \in S : \A u \in S : v <= u

MaxOf(S) == CHOOSE v \in S : \A u \in S : v >= u

\* cv2.erode / cv2.dilate: the border does not take part
Erode(im, kernel) ==
    Raster(im.h, im.w, LAMBDA p : MinOf({ im.px[q] : q \in Under(im, p, kernel) }))

Dilate(im, kernel) ==
    Raster(im.h, im.w, LAMBDA p : MaxOf({ im.px[q] : q \in Under(im, p, kernel) }))

\* cv2.morphologyEx(im, cv2.MORPH_OPEN, kernel)
MorphOpen(im, kernel) == Dilate(Erode(im, kernel), kernel)

\* cv2.subtract on 8-bit data: saturating
Subtract(a, b) == Raster(a.h, a.w, LAMBDA p : Max2(a.px[p] - b.px[p], 0))

Clamp(i, lo, hi) == Max2(lo, Min2(i, hi))

\* cv2.medianBlur(im, ksize): the median of the ksize x ksize window, the
\* border replicated
MedianBlur(im, ksize) ==
    LET r == ksize \div 2
        Win == (-r..r) \X (-r..r)
        At(p, d) == im.px[<<Clamp(p[1] + d[1], 1, im.h), Clamp(p[2] + d[2], 1, im.w)>>]
        Window(p) == Tabulate([d \in Win |-> At(p, d)], Win)
        AtMost(win, v) == Cardinality({ d \in Win : win[d] <= v })
        Median(win) ==
            MinOf({ v \in { win[d] : d \in Win } : 2 * AtMost(win, v) > ksize * ksize })
    IN  Raster(im.h, im.w, LAMBDA p : Median(Window(p)))

\* skimage.exposure.rescale_intensity(im, in_range=(lo, hi)) on uint8 data:
\* clip to [lo, hi], map linearly onto 0..255, truncate
RescaleIntensity(im, lo, hi) ==
    Map(im, LAMBDA v : ((Clamp(v, lo, hi) - lo) * 255) \div (hi - lo))

RECURSIVE Choose(_, _)
Choose(n, k) == IF k = 0 \/ k = n THEN 1 ELSE Choose(n - 1, k - 1) + Choose(n - 1, k)

\* the weight threshold_local's window gives the offset d, -radius..radius: a
\* bell of positive, symmetric weights (binomial, for the Gaussian's)
Weight(radius, d) == Choose(2 * radius, d + radius)

\* index i of an axis of n under scipy's mode='reflect' (d c b a | a b c d | d c b a)
Reflect(i, n) ==
    LET j == (i - 1) % (2 * n)
    IN  IF j < n THEN j + 1 ELSE 2 * n - j

\* mutant: the offset added to the local mean instead of subtracted
MutThresholdLocalPlus(im, radius, offset) ==
    LET R == -radius..radius
        wt == Tabulate([d \in R |-> Weight(radius, d)], R)
        s == SumFn(wt, R) * SumFn(wt, R)
        Row(y, x) == SumOver(R, LAMBDA dx : wt[dx] * im.px[<<y, Reflect(x + dx, im.w)>>])
        Mean(p) == SumOver(R, LAMBDA dy : wt[dy] * Row(Reflect(p[1] + dy, im.h), p[2]))
    IN  [h |-> im.h, w |-> im.w, scale |-> s,
         px |-> Tabulate([p \in Pixels(im) |-> Mean(p) + offset * s], Pixels(im))]

\* skimage.filters.threshold_local(im, block_size, offset): the weighted
\* local mean minus offset.  The threshold is a float; it is kept as the
\* exact fraction px / scale
ThresholdLocal(im, radius, offset) ==
    LET R == -radius..radius
        wt == Tabulate([d \in R |-> Weight(radius, d)], R)
        s == SumFn(wt, R) * SumFn(wt, R)
        Row(y, x) == SumOver(R, LAMBDA dx : wt[dx] * im.px[<<y, Reflect(x + dx, im.w)>>])
        Mean(p) == SumOver(R, LAMBDA dy : wt[dy] * Row(Reflect(p[1] + dy, im.h), p[2]))
    IN  [h |-> im.h, w |-> im.w, scale |-> s,
         px |-> Tabulate([p \in Pixels(im) |-> Mean(p) - offset * s], Pixels(im))]

\* final_complement > thresh
Greater(im, thresh) ==
    Raster(im.h, im.w, LAMBDA p : im.px[p] * thresh.scale > thresh.px[p])

\* skimage binary_dilation (outside the image counts as False)
BinaryDilation(im, footprint) ==
    Raster(im.h, im.w, LAMBDA p : \E q \in Under(im, p, footprint) : im.px[q])

\* skimage binary_erosion (outside the image counts as True)
BinaryErosion(im, footprint) ==
    Raster(im.h, im.w, LAMBDA p : \A q \in Under(im, p, footprint) : im.px[q])

\* skimage.morphology.binary_closing(im, footprint)
BinaryClosing(im, footprint) == BinaryErosion(BinaryDilation(im, footprint), footprint)

\* the variables of Method 2 once its code has run on the decoded image
Method2Vars(img) ==
    LET gray == BGR2GRAY(img)
        resized == Resize(img, CanonSize, CanonSize)
        green == Channel(resized, 2)
        clahe_green == CLAHE(green, ClipLimit)
        complement == Complement(clahe_green)
        opened == MorphOpen(complement, Ellipse5)
        subtracted == Subtract(complement, opened)
        median == MedianBlur(subtracted, MedianSize)
        final_sub == Subtract(median, opened)
        adjusted == RescaleIntensity(final_sub, RescaleLow, RescaleHigh)
        final_complement == Complement(adjusted)
        thresh == ThresholdLocal(final_complement, BlockRadius, Offset)
        binary == Greater(final_complement, thresh)
        closed == BinaryClosing(binary, Disk(DiskRadius))
    IN  [img |-> img, gray |-> gray, resized |-> resized, green |-> green,
         clahe_green |-> clahe_green, complement |-> complement, opened |-> opened,
         subtracted |-> subtracted, median |-> median, final_sub |-> final_sub,
         adjusted |-> adjusted, final_complement |-> final_complement,
         thresh |-> thresh, binary |-> binary, closed |-> closed]

\* mutant: the fourth panel shows the second complement
MutMethod2FigureComplement(v) ==
    << Panel("Original Image", v.resized),
       Panel("CLAHE Green Channel", v.clahe_green),
       Panel("Complemented CLAHE", v.complement),
       Panel("Adjusted Intensity", v.final_complement),
       Panel("Region Growing (Binary)", v.binary),
       Panel("Final Hemorrhage Detection", v.closed) >>

\* the figure Method 2 hands to st.image: axes[0] .. axes[5]
Method2Figure(v) ==
    << Panel("Original Image", v.resized),
       Panel("CLAHE Green Channel", v.clahe_green),
       Panel("Complemented CLAHE", v.complement),
       Panel("Adjusted Intensity", v.adjusted),
       Panel("Region Growing (Binary)", v.binary),
       Panel("Final Hemorrhage Detection", v.closed) >>

(* ---------------------------- the script ------------------------------- *)
\* mutant: the conversion accepts an empty source
MutCvtColorNeverRaises(src) == FALSE

\* cv2.cvtColor(src, code) raises cv2.error when src is None (imread found
\* nothing to decode)
CvtColorRaises(src) == src = None

Init ==
    /\ pc = "start"
    /\ uploaded_file = NoFile
    /\ temp_dir = FALSE
    /\ temp_file = FALSE
    /\ m1 = None
    /\ m2 = None
    /\ shown = <<>>

\* line 21: st.file_uploader returns the uploaded file or None; with None the
\* body of "if uploaded_file is not None" is skipped and the run ends
Upload ==
    /\ pc = "start"
    /\ \E f \in Files \cup {NoFile} :
          /\ uploaded_file' = f
          /\ pc' = IF f.present THEN "save" ELSE "done"
    /\ UNCHANGED <<temp_dir, temp_file, m1, m2, shown>>

\* lines 25-28: tempfile.mkdtemp(), then the upload is written into it
SaveTemp ==
    /\ pc = "save"
    /\ temp_dir' = TRUE
    /\ temp_file' = TRUE
    /\ pc' = "button"
    /\ UNCHANGED <<uploaded_file, m1, m2, shown>>

\* lines 31-34: the upload is previewed; st.button is True in the run the
\* press triggers, False otherwise
Button ==
    /\ pc = "button"
    /\ \E pressed \in BOOLEAN : pc' = IF pressed THEN "method1" ELSE "cleanup"
    /\ UNCHANGED <<uploaded_file, temp_dir, temp_file, m1, m2, shown>>

\* lines 41-90: cv2.imread of the temporary file; cv2.cvtColor raises on None
\* (the exception ends the run); otherwise the pipeline runs and its figure
\* is handed to st.image
Method1 ==
    /\ pc = "method1"
    /\ LET image == IF temp_file THEN uploaded_file.content ELSE None
       IN  IF CvtColorRaises(image)
           THEN /\ pc' = "error"
                /\ UNCHANGED <<m1, shown>>
           ELSE \E scaled \in FrangiScaled(BGR2GRAY(image)) :
                   /\ m1' = Method1Vars(image, scaled)
                   /\ shown' = Append(shown, Method1Figure(m1'))
                   /\ pc' = "method2"
    /\ UNCHANGED <<uploaded_file, temp_dir, temp_file, m2>>

\* lines 93-166: the same for Method 2
Method2 ==
    /\ pc = "method2"
    /\ LET img == IF temp_file THEN uploaded_file.content ELSE None
       IN  IF CvtColorRaises(img)
           THEN /\ pc' = "error"
                /\ UNCHANGED <<m2, shown>>
           ELSE /\ m2' = Method2Vars(img)
                /\ shown' = Append(shown, Method2Figure(m2'))
                /\ pc' = "cleanup"
    /\ UNCHANGED <<uploaded_file, temp_dir, temp_file, m1>>

\* lines 169-172: os.remove(temp_file_path), os.rmdir(temp_dir)
Cleanup ==
    /\ pc = "cleanup"
    /\ temp_file' = FALSE
    /\ temp_dir' = FALSE
    /\ pc' = "done"
    /\ UNCHANGED <<uploaded_file, m1, m2, shown>>

Next == Upload \/ SaveTemp \/ Button \/ Method1 \/ Method2 \/ Cleanup

Spec == Init /\ [][Next]_vars

(* ------------------------------ claims --------------------------------- *)
\* Method 1 (Method 2) has run: its variables are assigned
Ran1 == m1 # None

Ran2 == m2 # None

Red == <<0, 0, 255>>

AllBlack(im) == im # None /\ \A p \in Pixels(im) : im.px[p] = Black

Uniform(im) == \A p \in Pixels(im) : \A q \in Pixels(im) : im.px[p] = im.px[q]

\* threshold_local's weighted local means of final_complement (offset 0), as
\* fractions px / scale with the scale of m2.thresh
LocalMeans == ThresholdLocal(m2.final_complement, BlockRadius, 0)

\* C1: in Method 1 every pixel of the hemorrhage mask (damaged_areas) is a
\* pixel of the red-lesion mask (red_areas): the AND with the vessel mask
\* removes positive pixels and adds none.
C1_HemorrhageWithinRed ==
    Ran1 => \A p \in Pixels(m1.image) :
                m1.damaged_areas.px[p] = 255 => m1.red_areas.px[p] = 255

\* C1 witness: Method 1 ran, the AND kept one red pixel and removed another.
C1_Witness ==
    /\ Ran1
    /\ \E p \in Pixels(m1.image) : m1.damaged_areas.px[p] = 255
    /\ \E q \in Pixels(m1.image) :
          m1.red_areas.px[q] = 255 /\ m1.damaged_areas.px[q] = 0

\* C2 as claimed: Method 1 hands the renderer exactly three stages, in the
\* order original image, hemorrhage mask (vessel mask AND red-lesion mask),
\* highlighted overlay.
C2_OriginalClaim ==
    Len(shown) >= 1 =>
        /\ Len(shown[1]) = 3
        /\ shown[1][1].data = uploaded_file.content
        /\ shown[1][2].data = m1.damaged_areas
        /\ shown[1][3].data = m1.highlighted_damage

\* C2 amended: Method 1 hands the renderer exactly three stages, in the order
\* original image, red-lesion mask (the union of the two red hue bands, not
\* its AND with the vessel mask), highlighted overlay.
C2_ThreeStagesRedMask ==
    Len(shown) >= 1 =>
        /\ Len(shown[1]) = 3
        /\ shown[1][1].data = uploaded_file.content
        /\ shown[1][2].data = m1.red_areas
        /\ \A p \in Pixels(m1.image) :
              shown[1][2].data.px[p] = 255
                  <=> (m1.red_mask1.px[p] = 255 \/ m1.red_mask2.px[p] = 255)
        /\ shown[1][3].data = m1.highlighted_damage

\* C2 witness: the figure of Method 1 was handed over for an image whose
\* red-lesion mask differs from its hemorrhage mask.
C2_Witness == Len(shown) >= 1 /\ m1.red_areas # m1.damaged_areas

\* C3 as claimed: in Method 2 a pixel whose intensity equals its local mean
\* is classified as background (binary = false).
C3_OriginalClaim ==
    Ran2 => LET mean == LocalMeans
            IN  \A p \in Pixels(m2.final_complement) :
                    m2.final_complement.px[p] * mean.scale = mean.px[p]
                        => ~m2.binary.px[p]

\* C3 amended: the offset 10 is subtracted from the local mean, so a pixel
\* whose intensity equals its local mean is above its threshold and is
\* classified as foreground (binary = true); every pixel of a uniform
\* final_complement is true, and a pixel is false exactly when its intensity
\* is at most its local mean minus 10.
C3_EqualToMeanIsForeground ==
    Ran2 =>
        /\ LET mean == LocalMeans
           IN  \A p \in Pixels(m2.final_complement) :
                  /\ m2.final_complement.px[p] * mean.scale = mean.px[p]
                        => m2.binary.px[p]
                  /\ ~m2.binary.px[p]
                        <=> (m2.final_complement.px[p] + 10) * mean.scale <= mean.px[p]
        /\ Uniform(m2.final_complement)
              => \A p \in Pixels(m2.binary) : m2.binary.px[p]

\* C3 witness: Method 2 ran on an image that is not black and thresholded a
\* final_complement with a pixel equal to its local mean.
C3_Witness ==
    /\ Ran2
    /\ ~AllBlack(m2.img)
    /\ LET mean == LocalMeans
       IN  \E p \in Pixels(m2.final_complement) :
              m2.final_complement.px[p] * mean.scale = mean.px[p]

\* C4: in Method 1 the overlay equals the original image wherever the
\* hemorrhage mask is not set and is pure red (BGR 0, 0, 255) wherever it is
\* set, and the original image is unchanged by building the overlay.
C4_OverlayOnCopy ==
    Ran1 =>
        /\ m1.image = uploaded_file.content
        /\ shown[1][1].data = uploaded_file.content
        /\ \A p \in Pixels(uploaded_file.content) :
              m1.highlighted_damage.px[p] =
                  IF m1.damaged_areas.px[p] = 255 THEN Red
                  ELSE uploaded_file.content.px[p]

\* C4 witness: the overlay recoloured a pixel that was not pure red and left
\* another pixel as it was.
C4_Witness ==
    /\ Ran1
    /\ \E p \in Pixels(m1.image) :
          m1.damaged_areas.px[p] = 255 /\ uploaded_file.content.px[p] # Red
    /\ \E q \in Pixels(m1.image) : m1.damaged_areas.px[q] = 0

\* the stages of Method 2 after the resize
LaterStages ==
    << m2.green, m2.clahe_green, m2.complement, m2.opened, m2.subtracted,
       m2.median, m2.final_sub, m2.adjusted, m2.final_complement, m2.thresh,
       m2.binary, m2.closed >>

\* C5: in Method 2 original_resized has exactly the canonical dimensions for
\* every input size (smaller, equal or larger), and so has every later stage.
C5_ResizedIsCanonical ==
    Ran2 =>
        /\ m2.resized.h = CanonSize /\ m2.resized.w = CanonSize
        /\ DOMAIN m2.resized.px = Grid(CanonSize, CanonSize)
        /\ \A i \in 1..Len(LaterStages) :
              /\ LaterStages[i].h = CanonSize /\ LaterStages[i].w = CanonSize
              /\ DOMAIN LaterStages[i].px = Grid(CanonSize, CanonSize)

\* C5 witness: Method 2 ran on an input wider and less high than the
\* canonical size.
C5_Witness == Ran2 /\ m2.img.w > CanonSize /\ m2.img.h < CanonSize

\* C6: when cv2.imread yields no image the failure surfaces at the entry of
\* Method 1, before any stage output is produced or displayed (no result of
\* either pipeline reaches the renderer), and a valid input never ends in an
\* error.
C6_InvalidInputFailsFast ==
    /\ pc = "error" => uploaded_file.content = None
    /\ (uploaded_file.present /\ uploaded_file.content = None) =>
          /\ shown = <<>>
          /\ ~Ran1 /\ ~Ran2
          /\ pc \in {"save", "button", "method1", "cleanup", "done", "error"}
    /\ (uploaded_file.present /\ uploaded_file.content # None /\ pc = "done") =>
          Len(shown) \in {0, 2}

\* C6 witness: a run on an undecodable upload has ended in the error.
C6_Witness == pc = "error" /\ uploaded_file.present /\ uploaded_file.content = None

\* C7: for a fully black image Method 1 yields an all-false red-lesion mask
\* and an all-false hemorrhage mask, so the overlay equals the original;
\* Method 2 runs through without error and its binary and closed masks are
\* uniform.
C7_AllBlackInput ==
    AllBlack(uploaded_file.content) =>
        /\ pc # "error"
        /\ Ran1 =>
              /\ \A p \in Pixels(m1.image) :
                    m1.red_areas.px[p] = 0 /\ m1.damaged_areas.px[p] = 0
              /\ m1.highlighted_damage = uploaded_file.content
        /\ pc \in {"cleanup", "done"} /\ Len(shown) >= 1 => Ran2
        /\ Ran2 => Uniform(m2.binary) /\ Uniform(m2.closed)

\* C7 witness: both methods ran on a black image of more than one pixel whose
\* vessel mask is not empty.
C7_Witness ==
    /\ AllBlack(uploaded_file.content)
    /\ Ran1 /\ Ran2
    /\ \E p \in Pixels(m1.image) : m1.vessel_binary.px[p] = 255

\* C8: Method 2 hands the renderer exactly six stages, after Method 1's
\* figure, in the order original_resized, CLAHE output, 255 - CLAHE output,
\* the output of the [50, 200] rescale (before the second complement), the
\* adaptive threshold of the second complement, and the closing of that
\* binary mask.
C8_SixStagesInOrder ==
    /\ Len(shown) <= 2
    /\ Len(shown) = 2 =>
          /\ Len(shown[1]) = 3 /\ Len(shown[2]) = 6
          /\ shown[2][1].data = m2.resized
          /\ m2.resized.h = CanonSize /\ m2.resized.w = CanonSize
          /\ shown[2][2].data = m2.clahe_green
          /\ shown[2][3].data = m2.complement
          /\ shown[2][4].data = m2.adjusted
          /\ shown[2][5].data = m2.binary
          /\ shown[2][6].data = m2.closed
          /\ \A p \in Pixels(m2.resized) :
                /\ shown[2][3].data.px[p] = 255 - shown[2][2].data.px[p]
                /\ shown[2][4].data.px[p] = 255 - m2.final_complement.px[p]
                /\ shown[2][4].data.px[p] =
                      ((Clamp(m2.final_sub.px[p], 50, 200) - 50) * 255) \div 150
                /\ shown[2][5].data.px[p]
                      <=> m2.final_complement.px[p] * m2.thresh.scale > m2.thresh.px[p]
                /\ shown[2][5].data.px[p] => shown[2][6].data.px[p]

\* C8 witness: both figures were handed over and the closing changed the
\* binary mask.
C8_Witness == Len(shown) = 2 /\ m2.binary # m2.closed

InBand(x, lo, hi) == lo <= x /\ x <= hi

\* C9: in Method 1 a pixel is in the red-lesion mask iff its saturation is
\* >= 120, its value is >= 70 and its hue lies in [0, 10] or in [170, 180];
\* no pixel is selected by both band masks; on a black background exactly the
\* pure-red pixels of a pure-red rectangle are selected.
C9_RedLesionMask ==
    Ran1 => \A p \in Pixels(m1.image) :
        LET c == PixelHSV(uploaded_file.content.px[p])
        IN  /\ m1.red_areas.px[p] = 255
                <=> /\ c[2] >= 120
                    /\ c[3] >= 70
                    /\ InBand(c[1], 0, 10) \/ InBand(c[1], 170, 180)
            /\ m1.red_areas.px[p] \in {0, 255}
            /\ ~(m1.red_mask1.px[p] = 255 /\ m1.red_mask2.px[p] = 255)
            /\ uploaded_file.content.px[p] = Red => m1.red_areas.px[p] = 255
            /\ uploaded_file.content.px[p] = Black => m1.red_areas.px[p] = 0

\* C9 witness: Method 1 ran on a pure-red rectangle on black, and the mask
\* holds a pixel of the rectangle and misses a pixel of the background.
C9_Witness ==
    /\ Ran1
    /\ \A p \in Pixels(m1.image) : uploaded_file.content.px[p] \in {Red, Black}
    /\ \E p \in Pixels(m1.image) :
          uploaded_file.content.px[p] = Red /\ m1.red_areas.px[p] = 255
    /\ \E q \in Pixels(m1.image) :
          uploaded_file.content.px[q] = Black /\ m1.red_areas.px[q] = 0

\* C10: a run that saved an upload to a temporary directory has removed the
\* temporary file and the directory when it ends, whether the button was not
\* pressed, processing succeeded, or a stage raised an error.
C10_TempRemovedAtEnd ==
    pc \in {"done", "error"} => ~temp_file /\ ~temp_dir

=============================================================================
